---- MODULE Spec2Model ----
(***************************************************************************)
(* A model of mdconvert.py: the Markdown-to-article pipeline               *)
(* (ArticlePreProcessor, ArticleTreeProcessor, conv_markdown) and the      *)
(* batch driver that calls it once per input file.                         *)
(*                                                                         *)
(* Python strings are TLA+ strings; a list is a sequence; a dict is a      *)
(* function whose DOMAIN is its key set.  The generic Markdown engine, the *)
(* HTTP client and the file system are the environment: what they return   *)
(* is drawn from bounded sets.                                             *)
(***************************************************************************)
EXTENDS Integers, Sequences, FiniteSets, TLC

VARIABLES
    pc,         \* position of the program
    content,    \* the `content` argument of conv_markdown, as its lines
    lines,      \* the line buffer handed from preprocessor to parser
    md,         \* the Markdown instance: its attributes the code uses
    parsed,     \* what the generic parser made of `lines`: Meta, root, imgs
    root,       \* the top-level nodes of the document tree
    imgs,       \* the src of each <img> of the tree, in document order
    before,     \* imgs as they were when the tree processor last started
    runs,       \* how many times the tree processor ran on this tree
    fetched,    \* every url get_image was called with during the last run
    log,        \* warnings logged during this conversion
    exc,        \* the exception that ended the conversion, "" if none
    ret,        \* the metadata mapping conv_markdown returned
    env,        \* local_path, and what the network and the disk answer
    paths,      \* batch mode: the sorted list of input paths
    idx,        \* batch mode: position in paths
    written,    \* batch mode: files written to <outdir>
    articles,   \* batch mode: the list handed to index page and feed
    converted,  \* batch mode: each converted path with its metadata
    seen        \* an earlier conversion: its input and what it returned

vars == <<pc, content, lines, md, parsed, root, imgs, before, runs, fetched,
          log, exc, ret, env, paths, idx, written, articles, converted,
          seen>>

-----------------------------------------------------------------------------
(* Bounds of the model. *)

MaxLineLen == 3     \* characters in the first line of a document
MaxLines == 3       \* lines in a document
MaxNodes == 2       \* top-level nodes of a parsed tree
MaxImgs == 3        \* <img> elements of a parsed tree
MaxFiles == 2       \* entries of the input directory

-----------------------------------------------------------------------------
(* Python values. *)

\* Python's None.  No text of the model is this string.
None == "<None>"

\* '%s' % x
Str(x) == IF x = None THEN "None" ELSE x

\* truth value of a str-or-None
Truthy(x) == x # None /\ x # ""

At(s, i) == SubSeq(s, i, i)

StartsWith(s, p) == Len(s) >= Len(p) /\ SubSeq(s, 1, Len(p)) = p

EndsWith(s, p) == Len(s) >= Len(p) /\ SubSeq(s, Len(s) - Len(p) + 1, Len(s)) = p

\* c in s, for a one-character c
HasChar(s, c) == \E i \in 1..Len(s) : At(s, i) = c

RECURSIVE LStripOnlyHash(_, _)
\* first.lstrip('#'): a strip that forgets the space
LStripOnlyHash(s, chars) ==
    IF s # "" /\ Head(s) = "#" THEN LStripOnlyHash(Tail(s), chars) ELSE s

RECURSIVE LStrip(_, _)
\* s.lstrip(chars)
LStrip(s, chars) ==
    IF s # "" /\ HasChar(chars, Head(s)) THEN LStrip(Tail(s), chars) ELSE s

RECURSIVE Strs(_, _)
\* every string of at most n characters of cs
Strs(cs, n) ==
    IF n = 0 THEN {""}
    ELSE LET S == Strs(cs, n - 1) IN S \cup {s \o c : s \in S, c \in cs}

RECURSIVE Seqs(_, _)
\* every sequence of at most n elements of S
Seqs(S, n) ==
    IF n = 0 THEN {<<>>}
    ELSE LET T == Seqs(S, n - 1) IN T \cup {Append(t, x) : t \in T, x \in S}

-----------------------------------------------------------------------------
(* ArticlePreProcessor *)

\* the attributes of a Markdown instance the code reads and writes; `attrs`
\* holds the names of those that exist (hasattr)
FreshMd ==
    [attrs |-> {}, ArticleTitle |-> "", ArticlePreamble |-> "", Meta |-> <<>>]

\* the lone-first-line condition
LoneFirstLine(first, second) ==
    first # "" /\ second = "" /\ ~HasChar(first, ":")

\* ArticlePreProcessor.run(lines): the exception it raises ("" if none), the
\* value of .ArticleTitle it leaves and the lines it returns
PreProcessorRun(ls) ==
    IF Len(ls) < 2
    THEN [exc |-> "IndexError", title |-> "", lines |-> ls]
    ELSE LET first == ls[1]
             second == ls[2]
         IN IF LoneFirstLine(first, second)
            THEN [exc |-> "", title |-> LStrip(first, "# "),
                  lines |-> SubSeq(ls, 3, Len(ls))]
            ELSE [exc |-> "", title |-> "", lines |-> ls]

-----------------------------------------------------------------------------
(* The document tree.  A node is an Element: its tag, its .text (None when  *)
(* the element starts with a child), the text of its descendants and their *)
(* tails flattened, its own .tail, and its class attribute.                *)

Node(tag, text, kids, tail) ==
    [tag |-> tag, text |-> text, kids |-> kids, tail |-> tail, class |-> ""]

\* root.find(tag): the index of the first child with that tag, 0 for None
Find(nodes, tag) ==
    IF \E i \in 1..Len(nodes) : nodes[i].tag = tag
    THEN CHOOSE i \in 1..Len(nodes) :
            /\ nodes[i].tag = tag
            /\ \A j \in 1..(i - 1) : nodes[j].tag # tag
    ELSE 0

\* etree.tostring(p, method='text', encoding='unicode')
ToStringText(n) ==
    (IF n.text = None THEN "" ELSE n.text) \o n.kids \o n.tail

HasMeta(m, key) == "Meta" \in m.attrs /\ key \in DOMAIN m.Meta

\* the title part of the tree processor with a late h1 taking the title
TreeTitleLateWins(m, nodes) ==
    LET t0 == IF HasMeta(m, "title") THEN m.Meta["title"][1] ELSE m.ArticleTitle
        h1 == Find(nodes, "h1")
    IN IF h1 = 0
       THEN [title |-> t0, warn |-> IF Truthy(t0) THEN <<>> ELSE <<"This article has no title">>]
       ELSE [title |-> nodes[h1].text, warn |-> <<>>]

\* the title part of the tree processor with the first title found kept
TreeTitleFirstWins(m, nodes) ==
    LET t0 == IF HasMeta(m, "title") THEN m.Meta["title"][1] ELSE m.ArticleTitle
        h1 == Find(nodes, "h1")
    IN IF h1 = 0
       THEN [title |-> t0, warn |-> IF Truthy(t0) THEN <<>> ELSE <<"This article has no title">>]
       ELSE IF h1 # 1
            THEN [title |-> t0, warn |-> <<"Disregarding late h1 title (" \o Str(nodes[h1].text) \o ")">>]
            ELSE IF Truthy(t0)
                 THEN [title |-> t0,
                       warn |-> <<"Markdown text has two titles ("
                                  \o Str(nodes[h1].text) \o ")">>]
                 ELSE [title |-> nodes[h1].text, warn |-> <<>>]

\* ArticleTreeProcessor.run, the title: .ArticleTitle and the warning
TreeTitle(m, nodes) ==
    LET t0 == IF HasMeta(m, "title") THEN m.Meta["title"][1] ELSE m.ArticleTitle
        h1 == Find(nodes, "h1")
    IN IF h1 = 0
       THEN [title |-> t0, warn |-> IF Truthy(t0) THEN <<>> ELSE <<"This article has no title">>]
       ELSE IF h1 # 1
            THEN [title |-> t0, warn |-> <<"Disregarding late h1 title (" \o Str(nodes[h1].text) \o ")">>]
            ELSE [title |-> nodes[h1].text,
                  warn |-> IF Truthy(t0)
                           THEN <<"Markdown text has two titles ("
                                  \o Str(nodes[h1].text) \o ")">>
                           ELSE <<>>]

\* ArticleTreeProcessor.run, the preamble: .ArticlePreamble and the tree
\* with the paragraph marked
TreePreamble(m, nodes) ==
    LET nopreamble == HasMeta(m, "noarticle")
        p == Find(nodes, "p")
    IN IF p # 0 /\ ~nopreamble
       THEN [preamble |-> ToStringText(nodes[p]),
             root |-> [nodes EXCEPT ![p].class = @ \o " article_preamble"]]
       ELSE [preamble |-> "", root |-> nodes]

-----------------------------------------------------------------------------
(* The image resolver.  Bytes are sequences of numbers 0..255.  The         *)
(* environment e holds local_path (None when not configured), net (what    *)
(* requests.get does with each url) and fs (what open(path).read() does    *)
(* with each path).                                                        *)

B64Alphabet ==
    "ABCDEFGHIJKLMNOPQRSTUVWXYZabcdefghijklmnopqrstuvwxyz0123456789+/"

B64Char(n) == At(B64Alphabet, n + 1)

RECURSIVE B64Encode(_)
\* base64.b64encode(bytes).decode('ascii')
B64Encode(bytes) ==
    IF Len(bytes) = 0 THEN ""
    ELSE IF Len(bytes) = 1
    THEN B64Char(bytes[1] \div 4) \o B64Char((bytes[1] % 4) * 16) \o "=="
    ELSE IF Len(bytes) = 2
    THEN B64Char(bytes[1] \div 4)
         \o B64Char((bytes[1] % 4) * 16 + bytes[2] \div 16)
         \o B64Char((bytes[2] % 16) * 4) \o "="
    ELSE B64Char(bytes[1] \div 4)
         \o B64Char((bytes[1] % 4) * 16 + bytes[2] \div 16)
         \o B64Char((bytes[2] % 16) * 4 + bytes[3] \div 64)
         \o B64Char(bytes[3] % 64)
         \o B64Encode(SubSeq(bytes, 4, Len(bytes)))

\* os.path.join(a, b)
PathJoin(a, b) ==
    IF StartsWith(b, "/") THEN b
    ELSE IF a = "" \/ EndsWith(a, "/") THEN a \o b
    ELSE a \o "/" \o b

\* the position of the last "." of s, 0 if none
LastDot(s) ==
    IF HasChar(s, ".")
    THEN CHOOSE i \in 1..Len(s) :
            At(s, i) = "." /\ \A j \in (i + 1)..Len(s) : At(s, j) # "."
    ELSE 0

\* os.path.basename(path)
Basename(path) ==
    IF HasChar(path, "/")
    THEN LET i == CHOOSE k \in 1..Len(path) :
                    At(path, k) = "/" /\ \A j \in (k + 1)..Len(path) : At(path, j) # "/"
         IN SubSeq(path, i + 1, Len(path))
    ELSE path

\* os.path.splitext(path)[-1]: from the last dot of the base name, unless
\* only dots come before it
Ext(path) ==
    LET b == Basename(path)
        d == LastDot(b)
    IN IF d = 0 \/ \A j \in 1..d : At(b, j) = "." THEN ""
       ELSE SubSeq(b, d, Len(b))

UpperCase == "ABCDEFGHIJKLMNOPQRSTUVWXYZ"
LowerCase == "abcdefghijklmnopqrstuvwxyz"

RECURSIVE Lower(_)
\* s.lower()
Lower(s) ==
    IF s = "" THEN ""
    ELSE LET c == Head(s)
         IN (IF HasChar(UpperCase, c)
             THEN At(LowerCase, CHOOSE i \in 1..Len(UpperCase) : At(UpperCase, i) = c)
             ELSE c) \o Lower(Tail(s))

\* mimetypes.guess_type(url)[0], for the extensions the model uses
GuessType(url) ==
    LET x == Lower(Ext(url))
    IN IF x = ".png" THEN "image/png"
       ELSE IF x = ".gif" THEN "image/gif"
       ELSE None

\* None where bytes are expected: no byte is negative
NoBytes == <<-1>>

\* `return None, None` after logging.warning(w)
NoImage(w) == [content |-> NoBytes, mimetype |-> None, warn |-> <<w>>]

\* get_image without the status test
GetImageAnyStatus(url, e) ==
    LET r == e.net[url]
    IN IF r.kind = "response"
       THEN [content |-> r.content, mimetype |-> r.ctype, warn |-> <<>>]
       ELSE IF r.kind = "MissingSchema"
       THEN IF e.local_path # None
            THEN LET path == PathJoin(e.local_path, url)
                     f == e.fs[path]
                 IN IF ~f.ok
                    THEN NoImage("Unable to get local <img> " \o path)
                    ELSE LET mimetype == GuessType(url)
                         IN IF mimetype = None
                            THEN NoImage("Can't determine mimetype for image " \o url
                                         \o ", skipping'")
                            ELSE [content |-> f.content, mimetype |-> mimetype,
                                  warn |-> <<>>]
            ELSE NoImage("Cant find local <img> " \o url)
       ELSE NoImage("Unable to get <img> " \o url)

\* ArticleTreeProcessor.get_image(url): content, mimetype and the warning
GetImage(url, e) ==
    LET r == e.net[url]
    IN IF r.kind = "response"
       THEN IF r.status # 200
            THEN NoImage("Unable to get <img> from " \o url)
            ELSE [content |-> r.content, mimetype |-> r.ctype, warn |-> <<>>]
       ELSE IF r.kind = "MissingSchema"
       THEN IF e.local_path # None
            THEN LET path == PathJoin(e.local_path, url)
                     f == e.fs[path]
                 IN IF ~f.ok
                    THEN NoImage("Unable to get local <img> " \o path)
                    ELSE LET mimetype == GuessType(url)
                         IN IF mimetype = None
                            THEN NoImage("Can't determine mimetype for image " \o url
                                         \o ", skipping'")
                            ELSE [content |-> f.content, mimetype |-> mimetype,
                                  warn |-> <<>>]
            ELSE NoImage("Cant find local <img> " \o url)
       ELSE NoImage("Unable to get <img> " \o url)

\* the test that skips an image, without the test for the data: prefix
SkipOnlyEmpty(src) == src = ""

\* `not src or src.startswith('data:')`
SkipImage(src) == src = "" \/ StartsWith(src, "data:")

\* `not content`, for bytes-or-None
NoContent(c) == c = NoBytes \/ c = <<>>

RECURSIVE ImageLoop(_, _, _)
\* the loop over root.findall('.//img') from image i on: the src values it
\* leaves, the urls it resolved, the warnings it logged
ImageLoop(srcs, i, e) ==
    IF i > Len(srcs) THEN [imgs |-> srcs, fetched |-> <<>>, warn |-> <<>>]
    ELSE LET src == srcs[i]
         IN IF SkipImage(src) THEN ImageLoop(srcs, i + 1, e)
            ELSE LET g == GetImage(src, e)
                     new == IF NoContent(g.content) THEN src
                            ELSE "data:" \o Str(g.mimetype) \o ";base64,"
                                 \o B64Encode(g.content)
                     rest == ImageLoop([srcs EXCEPT ![i] = new], i + 1, e)
                 IN [imgs |-> rest.imgs,
                     fetched |-> <<src>> \o rest.fetched,
                     warn |-> g.warn \o rest.warn]

\* ArticleTreeProcessor.run(root) as a whole: title, preamble, images
TreeProcessorRun(m, nodes, srcs, e) ==
    LET t == TreeTitle(m, nodes)
        p == TreePreamble(m, nodes)
        l == ImageLoop(srcs, 1, e)
    IN [md |-> [m EXCEPT !.attrs = @ \cup {"ArticleTitle", "ArticlePreamble"},
                         !.ArticleTitle = t.title,
                         !.ArticlePreamble = p.preamble],
        root |-> p.root, imgs |-> l.imgs, fetched |-> l.fetched,
        warn |-> t.warn \o l.warn]

-----------------------------------------------------------------------------
(* conv_markdown *)

\* source.strip() == '' for the source these lines were split from: the
\* engine's convert() then returns '' before any processor runs
Blank(ls) == \A i \in 1..Len(ls) : LStrip(ls[i], " ") = ""

\* metadata = md.Meta; metadata['description'] = ...; metadata['title'] = ...
Metadata(m) ==
    [k \in DOMAIN m.Meta \cup {"description", "title"} |->
        IF k = "description" THEN m.ArticlePreamble
        ELSE IF k = "title" THEN m.ArticleTitle
        ELSE m.Meta[k]]

NoParse == [Meta |-> <<>>, root |-> <<>>, imgs |-> <<>>, done |-> FALSE]
NoRet == [returned |-> FALSE, metadata |-> <<>>]
NoSeen ==
    [taken |-> FALSE, content |-> <<>>, parsed |-> NoParse, out |-> <<>>,
     between |-> FALSE]

\* conv_markdown(content) on an engine instance that is kept between calls
conv_markdown_call_shared(U) ==
    /\ pc = "call"
    /\ \E d \in U.docs :
        /\ content' = d
        /\ lines' = d
        /\ pc' = IF Blank(d) THEN "treed" ELSE "pre"
    /\ md' = md
    /\ parsed' = NoParse
    /\ root' = <<>>
    /\ imgs' = <<>>
    /\ before' = <<>>
    /\ runs' = 0
    /\ fetched' = <<>>
    /\ log' = <<>>
    /\ exc' = ""
    /\ ret' = NoRet
    /\ UNCHANGED <<env, paths, idx, written, articles, converted, seen>>

\* conv_markdown(content), lines 159-160: a new Markdown instance, and
\* convert() up to the first preprocessor
conv_markdown_call(U) ==
    /\ pc = "call"
    /\ \E d \in U.docs :
        /\ content' = d
        /\ lines' = d
        /\ pc' = IF Blank(d) THEN "treed" ELSE "pre"
    /\ md' = FreshMd
    /\ parsed' = NoParse
    /\ root' = <<>>
    /\ imgs' = <<>>
    /\ before' = <<>>
    /\ runs' = 0
    /\ fetched' = <<>>
    /\ log' = <<>>
    /\ exc' = ""
    /\ ret' = NoRet
    /\ UNCHANGED <<env, paths, idx, written, articles, converted, seen>>

\* ArticlePreProcessor.run(lines)
ArticlePreProcessor_run ==
    /\ pc = "pre"
    /\ \E r \in {PreProcessorRun(lines)} :
          /\ md' = [md EXCEPT !.attrs = @ \cup {"ArticleTitle"},
                              !.ArticleTitle = r.title]
          /\ lines' = r.lines
          /\ exc' = r.exc
          /\ pc' = IF r.exc = "" THEN "parse" ELSE "raised"
    /\ UNCHANGED <<content, parsed, root, imgs, before, runs, fetched, log,
                   ret, env, paths, idx, written, articles, converted,
                   seen>>

\* the rest of convert() up to the tree processors: the meta preprocessor
\* sets .Meta, the parser builds the tree
Parse(U) ==
    /\ pc = "parse"
    /\ \E m \in U.metas, r \in U.roots, s \in U.imgss :
        /\ md' = [md EXCEPT !.attrs = @ \cup {"Meta"}, !.Meta = m]
        /\ root' = r
        /\ imgs' = s
        /\ parsed' = [Meta |-> m, root |-> r, imgs |-> s, done |-> TRUE]
    /\ pc' = "tree"
    /\ UNCHANGED <<content, lines, before, runs, fetched, log, exc, ret, env,
                   paths, idx, written, articles, converted, seen>>

\* ArticleTreeProcessor.run(root)
ArticleTreeProcessor_run ==
    /\ pc = "tree"
    /\ \E r \in {TreeProcessorRun(md, root, imgs, env)} :
          /\ md' = r.md
          /\ root' = r.root
          /\ imgs' = r.imgs
          /\ fetched' = r.fetched
          /\ log' = log \o r.warn
    /\ before' = imgs
    /\ runs' = runs + 1
    /\ pc' = "treed"
    /\ UNCHANGED <<content, lines, parsed, exc, ret, env, paths, idx, written,
                   articles, converted, seen>>

\* ArticleTreeProcessor.run(root) once more, on the tree it left
ArticleTreeProcessor_rerun ==
    /\ pc = "treed"
    /\ runs = 1
    /\ \E r \in {TreeProcessorRun(md, root, imgs, env)} :
          /\ md' = r.md
          /\ root' = r.root
          /\ imgs' = r.imgs
          /\ fetched' = r.fetched
          /\ log' = log \o r.warn
    /\ before' = imgs
    /\ runs' = runs + 1
    /\ UNCHANGED <<pc, content, lines, parsed, exc, ret, env, paths, idx,
                   written, articles, converted, seen>>

\* conv_markdown, lines 161-165: reads md.Meta, md.ArticlePreamble and
\* md.ArticleTitle, which exist only if the processors ran
conv_markdown_return ==
    /\ pc = "treed"
    /\ IF {"Meta", "ArticlePreamble", "ArticleTitle"} \subseteq md.attrs
       THEN /\ ret' = [returned |-> TRUE, metadata |-> Metadata(md)]
            /\ md' = [md EXCEPT !.Meta = Metadata(md)]
            /\ pc' = "returned"
            /\ exc' = ""
       ELSE /\ ret' = NoRet
            /\ md' = md
            /\ pc' = "raised"
            /\ exc' = "AttributeError"
    /\ UNCHANGED <<content, lines, parsed, root, imgs, before, runs, fetched,
                   log, env, paths, idx, written, articles, converted, seen>>

-----------------------------------------------------------------------------
(* Batch mode: the main program from line 252 on. *)

InDir == "in"
OutDir == "out"

\* is_valid_file(path, exts)
is_valid_file(path, exts) ==
    IF StartsWith(path, ".") \/ EndsWith(path, "~") THEN FALSE
    ELSE Lower(Ext(path)) \in exts

\* the characters of the model's file names, in code point order
CodePoints ==
    "./ABCDEFGHIJKLMNOPQRSTUVWXYZabcdefghijklmnopqrstuvwxyz~"

Ord(c) == CHOOSE i \in 1..Len(CodePoints) : At(CodePoints, i) = c

RECURSIVE StrLess(_, _)
\* a < b for str
StrLess(a, b) ==
    IF b = "" THEN FALSE
    ELSE IF a = "" THEN TRUE
    ELSE IF Head(a) = Head(b) THEN StrLess(Tail(a), Tail(b))
    ELSE Ord(Head(a)) < Ord(Head(b))

RECURSIVE SortedReverse(_)
\* the elements of S as a list, after list.sort(reverse=True)
SortedReverse(S) ==
    IF S = {} THEN <<>>
    ELSE LET top == CHOOSE x \in S : \A y \in S \ {x} : StrLess(y, x)
         IN <<top>> \o SortedReverse(S \ {top})

\* lines 252-253: the paths of the valid entries of <indir>
Paths(listing) ==
    SortedReverse({PathJoin(InDir, n) :
                    n \in {x \in listing : is_valid_file(x, {"", ".png"})}})

\* line 280, with only the hidden flag looked at
ListedUnlessHidden(metadata) == "hidden" \notin DOMAIN metadata

\* line 280: the article goes on to the index page and the feed
Listed(metadata) ==
    ~("hidden" \in DOMAIN metadata \/ "noarticle" \in DOMAIN metadata)

\* lines 256-258: a path that is no file is passed over
main_skip ==
    /\ pc = "main"
    /\ idx <= Len(paths)
    /\ paths[idx] \in env.dirs
    /\ idx' = idx + 1
    /\ UNCHANGED <<pc, content, lines, md, parsed, root, imgs, before, runs,
                   fetched, log, exc, ret, env, paths, written, articles,
                   converted, seen>>

\* lines 260-263: a file with an extension is copied
main_copy ==
    /\ pc = "main"
    /\ idx <= Len(paths)
    /\ paths[idx] \notin env.dirs
    /\ Lower(Ext(paths[idx])) # ""
    /\ written' = written \cup {PathJoin(OutDir, Basename(paths[idx]))}
    /\ idx' = idx + 1
    /\ UNCHANGED <<pc, content, lines, md, parsed, root, imgs, before, runs,
                   fetched, log, exc, ret, env, paths, articles, converted,
                   seen>>

\* lines 266-267: a Markdown file is read and handed to conv_markdown
main_convert ==
    /\ pc = "main"
    /\ idx <= Len(paths)
    /\ paths[idx] \notin env.dirs
    /\ Lower(Ext(paths[idx])) = ""
    /\ pc' = "call"
    /\ UNCHANGED <<content, lines, md, parsed, root, imgs, before, runs,
                   fetched, log, exc, ret, env, paths, idx, written, articles,
                   converted, seen>>

\* lines 270-291: both HTML files are written, the article is listed
main_write ==
    /\ pc = "returned"
    /\ LET path == paths[idx]
           metadata == ret.metadata
           htmlpath == PathJoin(OutDir, Basename(path) \o ".html")
           printpath == PathJoin(OutDir, Basename(path) \o ".print.html")
       IN /\ written' = written \cup {htmlpath, printpath}
          /\ converted' = Append(converted, [path |-> path, metadata |-> metadata])
          /\ articles' =
                IF Listed(metadata)
                THEN Append(articles,
                            [title |-> metadata["title"],
                             description |-> metadata["description"],
                             href |-> Basename(path) \o ".html",
                             metadata |-> metadata])
                ELSE articles
    /\ idx' = idx + 1
    /\ pc' = "main"
    /\ UNCHANGED <<content, lines, md, parsed, root, imgs, before, runs,
                   fetched, log, exc, ret, env, paths, seen>>

\* lines 294-298: the index page and the feed are written
main_finish ==
    /\ pc = "main"
    /\ idx > Len(paths)
    /\ written' = written \cup {PathJoin(OutDir, "index.html"),
                                PathJoin(OutDir, "rss.xml")}
    /\ pc' = "exit"
    /\ UNCHANGED <<content, lines, md, parsed, root, imgs, before, runs,
                   fetched, log, exc, ret, env, paths, idx, articles,
                   converted, seen>>

-----------------------------------------------------------------------------
(* A caller that converts one document after another. *)

\* the caller takes note of a conversion it has seen return
Remember ==
    /\ pc = "returned"
    /\ ~seen.taken
    /\ seen' = [taken |-> TRUE, content |-> content, parsed |-> parsed,
                out |-> ret.metadata, between |-> FALSE]
    /\ UNCHANGED <<pc, content, lines, md, parsed, root, imgs, before, runs,
                   fetched, log, exc, ret, env, paths, idx, written, articles,
                   converted>>

\* the caller goes on to its next document
next_call ==
    /\ pc = "returned"
    /\ pc' = "call"
    /\ seen' = IF seen.taken /\ (seen.content # content \/ seen.parsed # parsed)
               THEN [seen EXCEPT !.between = TRUE]
               ELSE seen
    /\ UNCHANGED <<content, lines, md, parsed, root, imgs, before, runs,
                   fetched, log, exc, ret, env, paths, idx, written, articles,
                   converted>>

-----------------------------------------------------------------------------
(* The inputs: documents, what the generic engine parses out of them, and  *)
(* what the network and the disk answer.                                   *)

Chars == {"#", " ", ":", "a"}

\* documents of 1..MaxLines lines: any first line, an empty or a non-empty
\* second line, body lines after
TitleDocs ==
    LET F == Strs(Chars, MaxLineLen)
        Two == {<<f, s>> : f \in F, s \in {"", "a"}}
    IN {<<f>> : f \in F} \cup Two
       \cup {d \o b : d \in Two, b \in Seqs({"a"}, MaxLines - 2)}

\* metadata blocks: a dict of lists of lines
TitleMetas ==
    {m @@ n : m \in {<<>>, "title" :> <<"">>, "title" :> <<"m">>,
                     "title" :> <<"m", "n">>},
              n \in {<<>>, "noarticle" :> <<"1">>}}

TitleNodes ==
    {Node("h1", "h", "", "\n"), Node("h1", None, "x", "\n"),
     Node("p", "b", "", "\n")}

Srcs == {"", "data:image/png;base64,AA==", "http://h/i", "i.png", "i"}

Response(status, bytes, ctype) ==
    [kind |-> "response", status |-> status, content |-> bytes, ctype |-> ctype]

\* requests.get raised: MissingSchema, or any other exception
Raises(kind) ==
    [kind |-> kind, status |-> 0, content |-> <<>>, ctype |-> None]

HttpOutcomes ==
    {Response(200, <<137, 80>>, "image/png"), Response(200, <<137, 80>>, None),
     Response(200, <<>>, "image/png"), Response(404, <<60>>, "text/html"),
     Raises("error")}

File(ok, bytes) == [ok |-> ok, content |-> bytes]

\* the answers of network and disk: a url with a scheme gets a response or
\* fails, one without raises MissingSchema; a path is read or not
Envs(local_paths, http, png, noext) ==
    {[local_path |-> lp,
      dirs |-> {PathJoin(InDir, "d")},
      net |-> [u \in Srcs |->
                IF u = "http://h/i" THEN h
                ELSE IF HasChar(u, ":") THEN Raises("error")
                ELSE Raises("MissingSchema")],
      fs |-> [q \in {PathJoin(InDir, u) : u \in Srcs} |->
                IF q = PathJoin(InDir, "i.png") THEN f
                ELSE IF q = PathJoin(InDir, "i") THEN g
                ELSE File(FALSE, <<>>)]] :
        lp \in local_paths, h \in http, f \in png, g \in noext}

\* many documents and trees, no image
UTitle ==
    [docs |-> TitleDocs,
     metas |-> TitleMetas,
     roots |-> Seqs(TitleNodes, MaxNodes),
     imgss |-> {<<>>},
     envs |-> Envs({None}, {Raises("error")}, {File(FALSE, <<>>)},
                   {File(FALSE, <<>>)}),
     listings |-> {{}}]

\* many images and answers, few documents
UImg ==
    [docs |-> {<<"a", "", "a">>, <<"a">>},
     metas |-> {<<>>},
     roots |-> {<<Node("p", "b", "", "\n")>>},
     imgss |-> Seqs(Srcs, MaxImgs),
     envs |-> Envs({None, InDir}, HttpOutcomes,
                   {File(TRUE, <<255, 216, 255>>), File(TRUE, <<>>),
                    File(FALSE, <<>>)},
                   {File(TRUE, <<1>>), File(FALSE, <<>>)}),
     listings |-> {{}}]

Names == {"a", "b", "d", "i.png", "I.PNG", "n.txt", ".h", "t~"}

\* a directory of at most MaxFiles entries
UBatch ==
    [docs |-> {<<"T", "", "a">>, <<"a", "a">>, <<"a">>},
     metas |-> {<<>>, "hidden" :> <<"1">>, "noarticle" :> <<"">>,
                ("title" :> <<"m">>) @@ ("hidden" :> <<"">>)},
     roots |-> {<<Node("p", "b", "", "\n")>>, <<>>},
     imgss |-> {<<>>, <<"i.png">>},
     envs |-> Envs({InDir}, {Raises("error")}, {File(TRUE, <<255>>)},
                   {File(FALSE, <<>>)}),
     listings |-> {l \in SUBSET Names : Cardinality(l) <= MaxFiles}]

\* a few documents, converted in any order, any number of times
USeq ==
    [docs |-> {<<"T", "", "a">>, <<"a", "a">>, <<" ", "">>, <<"a">>},
     metas |-> {<<>>, "title" :> <<"m">>, "noarticle" :> <<"">>},
     roots |-> {<<Node("p", "b", "", "\n")>>, <<Node("h1", "h", "", "\n")>>, <<>>},
     imgss |-> {<<>>},
     envs |-> Envs({None}, {Raises("error")}, {File(FALSE, <<>>)},
                   {File(FALSE, <<>>)}),
     listings |-> {{}}]

-----------------------------------------------------------------------------
(* Specifications *)

InitIn(U, pc0) ==
    /\ pc = pc0
    /\ content = <<>>
    /\ lines = <<>>
    /\ md = FreshMd
    /\ parsed = NoParse
    /\ root = <<>>
    /\ imgs = <<>>
    /\ before = <<>>
    /\ runs = 0
    /\ fetched = <<>>
    /\ log = <<>>
    /\ exc = ""
    /\ ret = NoRet
    /\ env \in U.envs
    /\ \E l \in U.listings : paths = Paths(l)
    /\ idx = 1
    /\ written = {}
    /\ articles = <<>>
    /\ converted = <<>>
    /\ seen = NoSeen

\* one call of conv_markdown
Init == InitIn(UTitle, "call")

Next ==
    \/ conv_markdown_call(UTitle)
    \/ ArticlePreProcessor_run
    \/ Parse(UTitle)
    \/ ArticleTreeProcessor_run
    \/ conv_markdown_return

Spec == Init /\ [][Next]_vars

\* one call of conv_markdown on a document with images, and a second run of
\* the tree processor on its result
InitImg == InitIn(UImg, "call")

NextImg ==
    \/ conv_markdown_call(UImg)
    \/ ArticlePreProcessor_run
    \/ Parse(UImg)
    \/ ArticleTreeProcessor_run
    \/ ArticleTreeProcessor_rerun
    \/ conv_markdown_return

SpecImg == InitImg /\ [][NextImg]_vars

\* batch mode
InitBatch == InitIn(UBatch, "main")

NextBatch ==
    \/ main_skip
    \/ main_copy
    \/ main_convert
    \/ conv_markdown_call(UBatch)
    \/ ArticlePreProcessor_run
    \/ Parse(UBatch)
    \/ ArticleTreeProcessor_run
    \/ conv_markdown_return
    \/ main_write
    \/ main_finish

SpecBatch == InitBatch /\ [][NextBatch]_vars

\* conv_markdown called again and again
InitSeq == InitIn(USeq, "call")

NextSeq ==
    \/ conv_markdown_call(USeq)
    \/ ArticlePreProcessor_run
    \/ Parse(USeq)
    \/ ArticleTreeProcessor_run
    \/ conv_markdown_return
    \/ Remember
    \/ next_call

SpecSeq == InitSeq /\ [][NextSeq]_vars

-----------------------------------------------------------------------------
(* Properties *)

\* t is s without its leading '#' and space characters
IsLStripOf(t, s) ==
    \E k \in 0..Len(s) :
        /\ t = SubSeq(s, k + 1, Len(s))
        /\ \A i \in 1..k : At(s, i) \in {"#", " "}
        /\ t = "" \/ Head(t) \notin {"#", " "}

\* the document's line 1 is non-empty, its line 2 empty, line 1 has no colon
LoneTitleDoc ==
    /\ Len(content) >= 2
    /\ content[1] # ""
    /\ content[2] = ""
    /\ \A i \in 1..Len(content[1]) : At(content[1], i) # ":"

\* the parsed tree starts with a level-1 heading
FirstNodeH1 == Len(parsed.root) >= 1 /\ parsed.root[1].tag = "h1"

\* the parsed tree has a level-1 heading, but not as its first node
LateH1 ==
    /\ ~FirstNodeH1
    /\ \E i \in 1..Len(parsed.root) : parsed.root[i].tag = "h1"

MetaTitle == "title" \in DOMAIN parsed.Meta

Logged(prefix) == \E k \in 1..Len(log) : StartsWith(log[k], prefix)

\* C1: when line 1 is non-empty, line 2 empty and line 1 has no colon, the
\* preprocessor leaves as title line 1 without its leading '#' and spaces and
\* hands on the lines without the first two; with no metadata title and no
\* first-node h1, that is the title conv_markdown returns.
C1_LoneFirstLineTitle ==
    /\ (pc = "parse" /\ LoneTitleDoc) =>
            /\ IsLStripOf(md.ArticleTitle, content[1])
            /\ lines = SubSeq(content, 3, Len(content))
    /\ (pc = "returned" /\ LoneTitleDoc /\ ~MetaTitle /\ ~FirstNodeH1) =>
            IsLStripOf(ret.metadata["title"], content[1])

C1_Witness ==
    /\ pc = "returned"
    /\ LoneTitleDoc
    /\ content[1] = "# a"
    /\ Len(content) = 3
    /\ ~MetaTitle
    /\ LateH1
    /\ ret.metadata["title"] = "a"

\* the title known before the tree is looked at is a non-empty one
EarlierTitle ==
    IF MetaTitle THEN parsed.Meta["title"][1] # ""
    ELSE /\ LoneTitleDoc
         /\ \E i \in 1..Len(content[1]) : At(content[1], i) \notin {"#", " "}

C3_MetaTitleStands ==
    (pc = "returned" /\ MetaTitle /\ ~FirstNodeH1) =>
        /\ ret.metadata["title"] = parsed.Meta["title"][1]
        /\ LateH1 => Logged("Disregarding late h1 title (")

C3_Witness ==
    /\ pc = "returned"
    /\ MetaTitle
    /\ LateH1
    /\ LoneTitleDoc
    /\ content[1] = "a"
    /\ ret.metadata["title"] = "m"
    /\ Logged("Disregarding late h1 title (")

\* the preprocessor has run and the parser has not
PreDone ==
    /\ pc \in {"parse", "raised"}
    /\ "ArticleTitle" \in md.attrs
    /\ ~parsed.done

\* C8: whenever the lone-first-line condition fails, also on a buffer of
\* fewer than two lines, the preprocessor ends without raising, returns the
\* lines untouched and leaves the title empty.
C8_PreProcessorNeverRaises ==
    (PreDone /\ ~LoneTitleDoc) =>
        /\ exc = ""
        /\ lines = content
        /\ md.ArticleTitle = ""

\* C10: the returned metadata has the keys title and description, each a
\* string and never None, and they are the derived values.
C10_TitleAndDescriptionAreStrings ==
    pc = "returned" =>
        /\ {"title", "description"} \subseteq DOMAIN ret.metadata
        /\ ret.metadata["title"] # None
        /\ ret.metadata["description"] # None
        /\ ret.metadata["title"] = md.ArticleTitle
        /\ ret.metadata["description"] = md.ArticlePreamble

Skipped(src) == src = "" \/ (Len(src) >= 5 /\ SubSeq(src, 1, 5) = "data:")

WasFetched(src) == \E k \in 1..Len(fetched) : fetched[k] = src

\* C4: a second run of the image pass changes no src, and no empty or
\* data: src is ever handed to get_image.  Network and disk answer the
\* second run as they answered the first (env does not change).
C4_ImagePassIdempotent ==
    /\ runs = 2 => imgs = before
    /\ \A k \in 1..Len(fetched) : ~Skipped(fetched[k])

C4_Witness ==
    /\ runs = 2
    /\ \E i, j, k \in 1..Len(imgs) :
        /\ parsed.imgs[i] # imgs[i]
        /\ Skipped(parsed.imgs[j])
        /\ parsed.imgs[j] # ""
        /\ WasFetched(parsed.imgs[k])

\* resolving url fails: a status other than 200, a network error, a relative
\* path without local_path, an unreadable file, no MIME type for the name
Fails(url) ==
    LET r == env.net[url]
    IN \/ r.kind = "response" /\ r.status # 200
       \/ r.kind = "error"
       \/ /\ r.kind = "MissingSchema"
          /\ \/ env.local_path = None
             \/ ~env.fs[env.local_path \o "/" \o url].ok
             \/ GuessType(url) = None

Mentions(w, url) ==
    \E a \in 1..(Len(w) - Len(url) + 1) : SubSeq(w, a, a + Len(url) - 1) = url

\* C5: a failed resolution leaves the src as it was and logs a warning, the
\* images after it are still resolved, and the tree processor does not raise.
C5_ResolverFailureIsSkipped ==
    runs >= 1 =>
        /\ exc = ""
        /\ \A i \in 1..Len(before) :
            (~Skipped(before[i]) /\ Fails(before[i])) =>
                /\ imgs[i] = before[i]
                /\ \E k \in 1..Len(log) : Mentions(log[k], before[i])
                /\ \A j \in (i + 1)..Len(before) :
                    ~Skipped(before[j]) => WasFetched(before[j])

C5_Witness ==
    /\ pc = "returned"
    /\ runs = 1
    /\ \E i, j \in 1..Len(before) :
        /\ i < j
        /\ before[i] = "http://h/i"
        /\ Fails(before[i])
        /\ imgs[j] # before[j]

DataUrl(mimetype, bytes) ==
    "data:" \o mimetype \o ";base64," \o B64Encode(bytes)

\* C6: after the tree processor every src is what it was, or the data: form
\* of the resolved bytes with the MIME type of the response or of the file
\* name, which is a string and never None.
C6_SrcUnchangedOrValidDataUrl ==
    runs >= 1 =>
        \A i \in 1..Len(imgs) :
            \/ imgs[i] = before[i]
            \/ LET r == env.net[before[i]]
               IN \/ /\ r.kind = "response"
                     /\ r.status = 200
                     /\ r.ctype # None
                     /\ imgs[i] = DataUrl(r.ctype, r.content)
                  \/ /\ r.kind = "MissingSchema"
                     /\ env.local_path # None
                     /\ GuessType(before[i]) # None
                     /\ imgs[i] = DataUrl(GuessType(before[i]),
                                          env.fs[env.local_path \o "/" \o before[i]].content)

\* C7: every converted file has its article page and its print page written,
\* and is in the list for index page and feed exactly if its metadata has
\* neither hidden nor noarticle.
C7_FlaggedWrittenNotListed ==
    \A k \in 1..Len(converted) :
        LET c == converted[k]
            base == Basename(c.path)
        IN /\ (OutDir \o "/" \o base \o ".html") \in written
           /\ (OutDir \o "/" \o base \o ".print.html") \in written
           /\ (\E a \in 1..Len(articles) : articles[a].href = base \o ".html")
                <=> ("hidden" \notin DOMAIN c.metadata
                     /\ "noarticle" \notin DOMAIN c.metadata)

C7_Witness ==
    /\ pc = "exit"
    /\ Len(converted) = 2
    /\ Len(articles) = 1
    /\ \E k \in 1..2 : /\ "noarticle" \in DOMAIN converted[k].metadata
                       /\ "hidden" \notin DOMAIN converted[k].metadata
    /\ (OutDir \o "/index.html") \in written

\* C9: a conversion of the same document returns the same metadata as an
\* earlier one did, whatever was converted before it or in between.
C9_NoLeakBetweenDocuments ==
    (pc = "returned" /\ seen.taken /\ seen.content = content
        /\ seen.parsed = parsed) => ret.metadata = seen.out

C9_Witness ==
    /\ pc = "returned"
    /\ seen.taken
    /\ seen.between
    /\ seen.content = content
    /\ seen.parsed = parsed
    /\ ret.metadata["title"] = "T"

====
